---- MODULE Spec2Model ----
(***************************************************************************)
(* Model of Lab2/src/closedloop.py: the ClosedLoop PID controller and its  *)
(* embedded 100-sample recorder.                                           *)
(*                                                                         *)
(* Numbers that Python computes with true division are held as exact       *)
(* rationals [n, d] (d > 0, lowest terms).  The elapsed times used below   *)
(* are 0, 1 and 2, so every value is a dyadic rational and the rational    *)
(* agrees with the float Python computes.                                  *)
(***************************************************************************)
EXTENDS Integers, Sequences, FiniteSets, TLC

VARIABLES
    Kp,                \* self.Kp
    Kd,                \* self.Kd
    Ki,                \* self.Ki
    setpoint,          \* self.setpoint
    satLim,            \* self.satLim, <<low, high>>
    esum,              \* self.esum (rational)
    laste,             \* self.laste
    to,                \* self.to, the time origin
    times,             \* self.times
    positions,         \* self.positions
    recording,         \* self.recording
    boot,              \* the value utime.ticks_ms() returned at construction
    clock,             \* milliseconds that have passed since construction
    printed,           \* the lines the latest call wrote with print()
    result,            \* how the latest call ended and what it returned
    call,              \* the latest call: its name and arguments
    dele,              \* local dele of the latest update that computed it
    actuation_signal,  \* local actuation_signal of the latest update
    nupd,              \* number of update calls made so far
    nsince,            \* update calls that returned since the latest record()
    rearmed,           \* whether record() has run since construction
    nemit              \* emissions since the latest record() or construction

vars == <<Kp, Kd, Ki, setpoint, satLim, esum, laste, to, times, positions,
          recording, boot, clock, printed, result, call, dele, actuation_signal,
          nupd, nsince, rearmed, nemit>>

(***************************************************************************)
(* Bounds of the model and the input sets.                                 *)
(***************************************************************************)
MaxUpdates == 2
RecMaxClock == 103
RecEdge == 1

Gains == {0, 1}
Points == {0, 1}
Reads == {0, 1, 3}
TDifs == {0, 1, 2}
ClockSteps == {1}
SatLims == {<<-100, 100>>, <<-1, 1>>, <<1, -1>>}

\* the recorder's capacity, the literal of the test len(self.times) < 100
Capacity == 100

\* the period of the millisecond counter of utime: ticks_ms() counts from 0
\* to TicksPeriod - 1 and starts again at 0
TicksPeriod == 1073741824

\* readings of the counter at construction: long before the counter wraps,
\* and two milliseconds before it does
Boots == {0, TicksPeriod - 2}

(***************************************************************************)
(* Python arithmetic on exact rationals.                                   *)
(***************************************************************************)
Abs(x) == IF x < 0 THEN -x ELSE x

RECURSIVE GCD(_, _)
GCD(a, b) == IF b = 0 THEN a ELSE GCD(b, a % b)

Norm(n, d) ==
    LET s == IF d < 0 THEN -1 ELSE 1
        g == GCD(Abs(n), Abs(d))
    IN  [n |-> (s * n) \div g, d |-> (s * d) \div g]

R(i) == [n |-> i, d |-> 1]
Add(x, y) == Norm(x.n * y.d + y.n * x.d, x.d * y.d)
Mul(x, y) == Norm(x.n * y.n, x.d * y.d)
\* x / y, defined for y # 0 only (Python raises ZeroDivisionError otherwise)
Div(x, y) == Norm(x.n * y.d, x.d * y.n)
Less(x, y) == x.n * y.d < y.n * x.d

(***************************************************************************)
(* What a call returns.                                                    *)
(***************************************************************************)
None == [status |-> "None", value |-> R(0)]
Returned(v) == [status |-> "value", value |-> v]
ZeroDivisionError == [status |-> "ZeroDivisionError", value |-> R(0)]

Call(name, a, b) == [name |-> name, a |-> a, b |-> b]

(***************************************************************************)
(* utime.ticks_ms(): the millisecond counter, which wraps at TicksPeriod.   *)
(* utime.ticks_diff(new, old): the signed difference of two readings,      *)
(* taken modulo TicksPeriod into -TicksPeriod/2 .. TicksPeriod/2 - 1.       *)
(***************************************************************************)
TimeAt(t) == (boot + t) % TicksPeriod

Time == TimeAt(clock)

\* a difference taken the wrong way round
ticks_diff_swapped(new, old) ==
    ((old - new + TicksPeriod \div 2) % TicksPeriod) - TicksPeriod \div 2

ticks_diff(new, old) ==
    ((new - old + TicksPeriod \div 2) % TicksPeriod) - TicksPeriod \div 2

(***************************************************************************)
(* ClosedLoop.sat                                                          *)
(***************************************************************************)
\* a sat that forgets the upper limit
sat_lower_only(duty) ==
    IF Less(duty, R(satLim[1])) THEN R(satLim[1]) ELSE duty

\* a sat that tests the upper limit first
sat_upper_first(duty) ==
    IF Less(R(satLim[2]), duty) THEN R(satLim[2])
    ELSE IF Less(duty, R(satLim[1])) THEN R(satLim[1])
    ELSE duty

sat(duty) ==
    IF Less(duty, R(satLim[1])) THEN R(satLim[1])
    ELSE IF Less(R(satLim[2]), duty) THEN R(satLim[2])
    ELSE duty

(***************************************************************************)
(* ClosedLoop.print_values: one line str(time) + "," + str(position) per   *)
(* index of self.times, in index order.                                    *)
(***************************************************************************)
str(i) == ToString(i)

Line(i) == str(times[i]) \o "," \o str(positions[i])

\* a print_values that walks the lists from the end
print_values_reversed ==
    [i \in 1..Len(times) |-> Line(Len(times) + 1 - i)]

print_values == [i \in 1..Len(times) |-> Line(i)]

(***************************************************************************)
(* ClosedLoop.record                                                       *)
(***************************************************************************)
\* a record that clears the times only
record_keeps_positions ==
    /\ times' = <<>>
    /\ UNCHANGED positions
    /\ recording' = TRUE

\* a record that clears the positions only
record_keeps_times ==
    /\ UNCHANGED times
    /\ positions' = <<>>
    /\ recording' = TRUE

record ==
    /\ times' = <<>>
    /\ positions' = <<>>
    /\ recording' = TRUE

(***************************************************************************)
(* ClosedLoop.set_setpoint(point), the clock reading now                   *)
(***************************************************************************)
\* a set_setpoint that also clears the error history
set_setpoint_resets_errors(point, now) ==
    /\ setpoint' = point
    /\ to' = now
    /\ record
    /\ esum' = R(0)
    /\ laste' = 0
    /\ UNCHANGED <<Kp, Kd, Ki, satLim>>

\* a set_setpoint that does not take a new time origin
set_setpoint_keeps_origin(point, now) ==
    /\ setpoint' = point
    /\ record
    /\ UNCHANGED <<to, Kp, Kd, Ki, satLim, esum, laste>>

set_setpoint(point, now) ==
    /\ setpoint' = point
    /\ to' = now
    /\ record
    /\ UNCHANGED <<Kp, Kd, Ki, satLim, esum, laste>>

(***************************************************************************)
(* ClosedLoop.set_control_gain(gain)                                       *)
(***************************************************************************)
\* a set_control_gain that sets the three gains
set_control_gain_all(gain) ==
    /\ Kp' = gain
    /\ Ki' = gain
    /\ Kd' = gain
    /\ UNCHANGED <<setpoint, satLim, esum, laste, to, times, positions,
                   recording>>

\* a set_control_gain that also starts a recording
set_control_gain_rearms(gain) ==
    /\ Kp' = gain
    /\ record
    /\ UNCHANGED <<Kd, Ki, setpoint, satLim, esum, laste, to>>

set_control_gain(gain) ==
    /\ Kp' = gain
    /\ UNCHANGED <<Kd, Ki, setpoint, satLim, esum, laste, to, times,
                   positions, recording>>

(***************************************************************************)
(* ClosedLoop.update(read, tdif), the clock reading now                    *)
(***************************************************************************)
Error(read) == setpoint - read

\* the rectangle rule in place of the trapezoid
Trapezoid_rectangle(e, tdif) == Mul(R(e), R(tdif))

\* an area that ignores the elapsed time
Trapezoid_untimed(e, tdif) == Div(R(laste + e), R(2))

Trapezoid(e, tdif) == Div(Mul(R(laste + e), R(tdif)), R(2))

\* a difference that is not divided by the elapsed time
Derivative_undivided(e, tdif) == R(e - laste)

Derivative(e, tdif) == Div(R(e - laste), R(tdif))

\* an actuation whose integral term ignores Ki
Actuation_ungained_integral(e, es, de) ==
    Add(Add(Mul(R(Kp), R(e)), es), Mul(R(Kd), de))

\* an actuation that is computed only while a recording runs
Actuation_while_recording(e, es, de) ==
    IF recording
    THEN Add(Add(Mul(R(Kp), R(e)), Mul(R(Ki), es)), Mul(R(Kd), de))
    ELSE R(0)

Actuation(e, es, de) ==
    Add(Add(Mul(R(Kp), R(e)), Mul(R(Ki), es)), Mul(R(Kd), de))

\* capacity tests that are off by one, either way
Appends_one_early == Len(times) < Capacity - 1 /\ recording

Appends_one_late == Len(times) <= Capacity /\ recording

\* a capacity test that forgets the recording flag
Appends_unarmed == Len(times) < Capacity

Appends == Len(times) < Capacity /\ recording

\* an else in place of the elif
Emits_unguarded == ~Appends

\* an elif that waits for more than Capacity entries
Emits_strict == Len(times) > Capacity /\ recording

Emits == ~Appends /\ recording

update(read, tdif, now) ==
    LET e  == Error(read)
        es == Add(esum, Trapezoid(e, tdif))
    IN  /\ esum' = es
        /\ IF tdif = 0
           THEN \* (e - self.laste)/tdif raises; nothing after line 66 runs
                /\ result' = ZeroDivisionError
                /\ printed' = <<>>
                /\ UNCHANGED <<laste, dele, actuation_signal, times,
                               positions, recording, nsince>>
           ELSE LET de  == Derivative(e, tdif)
                    act == Actuation(e, es, de)
                IN  /\ dele' = de
                    /\ laste' = e
                    /\ actuation_signal' = act
                    /\ IF Appends
                       THEN /\ times' = Append(times, ticks_diff(now, to))
                            /\ positions' = Append(positions, read)
                            /\ printed' = <<>>
                            /\ UNCHANGED recording
                       ELSE IF Emits
                       THEN /\ printed' = print_values \o <<"#STOP#">>
                            /\ recording' = FALSE
                            /\ UNCHANGED <<times, positions>>
                       ELSE /\ printed' = <<>>
                            /\ UNCHANGED <<times, positions, recording>>
                    /\ result' = Returned(sat(act))
                    /\ nsince' = nsince + 1
        /\ UNCHANGED <<Kp, Kd, Ki, setpoint, satLim, to>>

(***************************************************************************)
(* ClosedLoop.__init__(Kp, setpoint, Ki, Kd, satLim)                       *)
(***************************************************************************)
Construct(kp, point, ki, kd, lim) ==
    /\ Kp = kp
    /\ Kd = kd
    /\ Ki = ki
    /\ setpoint = point
    /\ satLim = lim
    /\ esum = R(0)
    /\ laste = 0
    /\ boot \in Boots
    /\ clock = 0
    /\ to = Time
    /\ times = <<>>
    /\ positions = <<>>
    /\ recording = FALSE
    /\ printed = <<>>
    /\ result = None
    /\ call = Call("__init__", 0, 0)
    /\ dele = R(0)
    /\ actuation_signal = R(0)
    /\ nupd = 0
    /\ nsince = 0
    /\ rearmed = FALSE
    /\ nemit = 0

(***************************************************************************)
(* Spec: the controller under every short sequence of calls, with the      *)
(* gains, the setpoint, the bounds, the measurements and the elapsed times *)
(* drawn from the input sets.                                              *)
(***************************************************************************)
Init ==
    \E kp \in Gains, point \in Points, ki \in Gains, kd \in Gains,
       lim \in SatLims :
        Construct(kp, point, ki, kd, lim)

Update ==
    /\ nupd < MaxUpdates
    /\ \E read \in Reads, tdif \in TDifs, dt \in ClockSteps :
        /\ clock' = clock + dt
        /\ update(read, tdif, TimeAt(clock + dt))
        /\ call' = Call("update", read, tdif)
    /\ nupd' = nupd + 1
    /\ nemit' = IF printed' # <<>> THEN nemit + 1 ELSE nemit
    /\ UNCHANGED <<boot, rearmed>>

SetSetpoint ==
    \E point \in Points :
        /\ set_setpoint(point, Time)
        /\ call' = Call("set_setpoint", point, 0)
        /\ printed' = <<>>
        /\ result' = None
        /\ nsince' = 0
        /\ rearmed' = TRUE
        /\ nemit' = 0
        /\ UNCHANGED <<boot, clock, dele, actuation_signal, nupd>>

SetControlGain ==
    \E gain \in Gains :
        /\ set_control_gain(gain)
        /\ call' = Call("set_control_gain", gain, 0)
        /\ printed' = <<>>
        /\ result' = None
        /\ UNCHANGED <<boot, clock, dele, actuation_signal, nupd, nsince,
                       rearmed, nemit>>

Record ==
    /\ record
    /\ call' = Call("record", 0, 0)
    /\ printed' = <<>>
    /\ result' = None
    /\ nsince' = 0
    /\ rearmed' = TRUE
    /\ nemit' = 0
    /\ UNCHANGED <<Kp, Kd, Ki, setpoint, satLim, esum, laste, to, boot,
                   clock, dele, actuation_signal, nupd>>

\* a direct call of the public method print_values(): the buffered sample
\* lines, without the "#STOP#" line that update prints after them
PrintValues ==
    /\ printed' = print_values
    /\ call' = Call("print_values", 0, 0)
    /\ result' = None
    /\ UNCHANGED <<Kp, Kd, Ki, setpoint, satLim, esum, laste, to, times,
                   positions, recording, boot, clock, dele, actuation_signal,
                   nupd, nsince, rearmed, nemit>>

Next == Update \/ SetSetpoint \/ SetControlGain \/ Record \/ PrintValues

Spec == Init /\ [][Next]_vars

(***************************************************************************)
(* SpecRec: whole recording sessions.  The control loop calls update once  *)
(* per millisecond with elapsed time 1; the encoder reads the setpoint     *)
(* plus a ripple that depends on the clock.  record, set_setpoint and      *)
(* set_control_gain are called between updates, in the first RecEdge       *)
(* milliseconds after construction and from RecEdge updates before the     *)
(* 100th update of a session onwards; print_values is called between any   *)
(* two updates.                                                            *)
(***************************************************************************)
Ripple(t) == t % 3

Encoder(t) == setpoint + Ripple(t)

NearEdge == clock <= RecEdge \/ nsince >= Capacity - RecEdge

InitRec == Construct(1, 0, 1, 1, <<-100, 100>>)

RecUpdate ==
    /\ clock < RecMaxClock
    /\ clock' = clock + 1
    /\ update(Encoder(clock + 1), 1, TimeAt(clock + 1))
    /\ call' = Call("update", Encoder(clock + 1), 1)
    /\ nupd' = nupd + 1
    /\ nemit' = IF printed' # <<>> THEN nemit + 1 ELSE nemit
    /\ UNCHANGED <<boot, rearmed>>

RecSetSetpoint == NearEdge /\ SetSetpoint

RecSetControlGain == NearEdge /\ SetControlGain

RecRecord == NearEdge /\ Record

NextRec ==
    RecUpdate \/ RecSetSetpoint \/ RecSetControlGain \/ RecRecord
        \/ PrintValues

SpecRec == InitRec /\ [][NextRec]_vars

(***************************************************************************)
(* SpecLive: a caller that keeps calling update.  As in SpecRec, but       *)
(* record and set_setpoint are called in the first RecEdge milliseconds    *)
(* only, and the control loop is weakly fair: it does not stop before the  *)
(* clock reading RecMaxClock, which leaves room for the Capacity + 1       *)
(* updates of a session.  RecUpdate is the only action that changes the    *)
(* clock, so the steps of LoopRuns that change the clock are the RecUpdate *)
(* steps, and both are enabled in the same states.                         *)
(***************************************************************************)
LoopRuns == clock < RecMaxClock /\ clock' = clock + 1

EarlySetSetpoint == clock <= RecEdge /\ SetSetpoint

EarlyRecord == clock <= RecEdge /\ Record

NextLive ==
    RecUpdate \/ EarlySetSetpoint \/ RecSetControlGain \/ EarlyRecord
        \/ PrintValues

SpecLive == InitRec /\ [][NextLive]_vars /\ WF_clock(LoopRuns)

(***************************************************************************)
(* Properties.                                                             *)
(***************************************************************************)
IsUpdate(c) == c.name = "update"

\* an update call that ran to its return statement
Returns(c) == c.name = "update" /\ c.b # 0

\* the milliseconds between the construction and the reading of the
\* counter that self.to holds
Origin == CHOOSE t \in 0..clock : TimeAt(t) = to

\* C1: with low <= high, every update called with elapsed_time > 0 returns
\* a value in [low, high], whatever the gains, the setpoint, the
\* measurements and the accumulated integral are.
C1_OutputWithinBounds ==
    (IsUpdate(call) /\ call.b > 0 /\ satLim[1] <= satLim[2]) =>
        /\ result.status = "value"
        /\ satLim[1] * result.value.d <= result.value.n
        /\ result.value.n <= satLim[2] * result.value.d

\* an update whose actuation signal exceeded the upper limit and was clamped
C1_Witness ==
    /\ IsUpdate(call) /\ call.b > 0
    /\ satLim = <<-1, 1>>
    /\ actuation_signal.n > actuation_signal.d
    /\ result = Returned(R(1))

\* C2 as stated: after record(), the 100th consecutive update emits (100
\* sample lines and the terminator) and disarms, and the 101st appends
\* nothing and emits nothing.
C2_EmissionAt100th ==
    (rearmed /\ Returns(call)) =>
        /\ nsince = Capacity =>
              Len(printed) = Capacity + 1 /\ ~recording
        /\ nsince = Capacity + 1 =>
              printed = <<>> /\ Len(times) = Capacity

\* C2 amended: after record(), the 100th consecutive update that returns
\* appends the 100th sample and emits nothing, leaving the recorder armed;
\* the 101st emits the 100 sample lines and the terminator and disarms;
\* the 102nd appends nothing and emits nothing.
C2_EmissionAt101st ==
    (rearmed /\ Returns(call)) =>
        /\ nsince < Capacity =>
              Len(times) = nsince /\ printed = <<>> /\ recording
        /\ nsince = Capacity =>
              Len(times) = Capacity /\ printed = <<>> /\ recording
        /\ nsince = Capacity + 1 =>
              /\ Len(printed) = Capacity + 1
              /\ printed[Capacity + 1] = "#STOP#"
              /\ Len(times) = Capacity
              /\ ~recording
        /\ nsince = Capacity + 2 =>
              printed = <<>> /\ Len(times) = Capacity /\ ~recording

\* the 101st update after a record() has just emitted
C2_Witness ==
    /\ rearmed /\ Returns(call)
    /\ nsince = Capacity + 1
    /\ Len(printed) = Capacity + 1
    /\ ~recording

\* C3: the sample buffers never hold more than 100 entries.
C3_BufferAtMost100 ==
    /\ Len(times) <= 100
    /\ Len(positions) <= 100

\* updates have run on a buffer that already held 100 entries
C3_Witness ==
    /\ Returns(call)
    /\ rearmed
    /\ nsince > Capacity + 1
    /\ Len(times) = 100
    /\ Len(positions) = 100

\* C4: set_setpoint(point) sets the setpoint to point, resets the time
\* origin to the current clock value, empties both buffers and arms the
\* recorder, and leaves esum, laste, Kp, Ki, Kd and the saturation limits
\* unchanged.
C4_SetSetpointEffect ==
    [][call'.name = "set_setpoint" =>
          /\ setpoint' = call'.a
          /\ to' = Time'
          /\ times' = <<>>
          /\ positions' = <<>>
          /\ recording' = TRUE
          /\ esum' = esum
          /\ laste' = laste
          /\ Kp' = Kp /\ Ki' = Ki /\ Kd' = Kd
          /\ satLim' = satLim]_vars

\* set_setpoint has run after two updates left an error history behind
C4_Witness ==
    /\ call.name = "set_setpoint"
    /\ nupd = 2
    /\ esum # R(0)
    /\ laste # 0
    /\ setpoint = call.a
    /\ to = Time /\ to # boot
    /\ times = <<>> /\ recording

\* C5: set_control_gain(gain) changes Kp only: Ki, Kd, the setpoint, the
\* saturation limits, esum, laste, the time origin, the buffers and the
\* recording flag stay as they were.
C5_SetControlGainOnlyKp ==
    [][call'.name = "set_control_gain" =>
          /\ Kp' = call'.a
          /\ Ki' = Ki /\ Kd' = Kd
          /\ setpoint' = setpoint
          /\ satLim' = satLim
          /\ esum' = esum
          /\ laste' = laste
          /\ to' = to
          /\ times' = times
          /\ positions' = positions
          /\ recording' = recording]_vars

\* set_control_gain has run on a controller with non-zero Ki and Kd, an
\* error history and a sample in the buffer
C5_Witness ==
    /\ call.name = "set_control_gain"
    /\ Kp = 1 /\ Ki = 1 /\ Kd = 1
    /\ esum # R(0) /\ laste # 0
    /\ recording /\ Len(times) = 1

\* C6: with Ki = 0 and Kd = 0 every update(read, t), t > 0, returns
\* Kp * (setpoint - read) clamped to the saturation limits, whatever t and
\* the calls before it were.
C6_PureProportional ==
    (IsUpdate(call) /\ call.b > 0 /\ Ki = 0 /\ Kd = 0) =>
        LET p == Kp * (setpoint - call.a)
            clamped == IF p < satLim[1] THEN satLim[1]
                       ELSE IF p > satLim[2] THEN satLim[2]
                       ELSE p
        IN  result = Returned(R(clamped))

\* a second update with elapsed time 2, a non-zero integral and a non-zero
\* proportional output
C6_Witness ==
    /\ IsUpdate(call) /\ call.b = 2
    /\ Ki = 0 /\ Kd = 0 /\ Kp = 1
    /\ nupd = 2
    /\ esum # R(0)
    /\ dele # R(0)
    /\ result.status = "value" /\ result.value # R(0)

\* C7: record() empties both buffers and arms the recorder, and leaves the
\* setpoint, the time origin, the gains, the saturation limits, esum and
\* laste unchanged.
C7_RecordEffect ==
    [][call'.name = "record" =>
          /\ times' = <<>>
          /\ positions' = <<>>
          /\ recording' = TRUE
          /\ setpoint' = setpoint
          /\ to' = to
          /\ Kp' = Kp /\ Ki' = Ki /\ Kd' = Kd
          /\ satLim' = satLim
          /\ esum' = esum
          /\ laste' = laste]_vars

\* record() has run after a session that filled the buffer and emitted it
C7_Witness ==
    /\ call.name = "record"
    /\ nupd > Capacity
    /\ times = <<>> /\ positions = <<>> /\ recording
    /\ esum # R(0)

\* C8: esum starts at 0 and every update(read, t) adds exactly
\* (laste + error) * t / 2 to it; no other call changes it.  With Kp = 0,
\* Kd = 0, Ki = 1 and setpoint 1, two consecutive update(0, 1) calls leave
\* esum at 1/2 and then 3/2, and the second actuation signal is 3/2.
C8_Step ==
    /\ nupd = 0 => esum = R(0) /\ laste = 0
    /\ IsUpdate(call') =>
          2 * (esum'.n * esum.d - esum.n * esum'.d)
              = (laste + (setpoint - call'.a)) * call'.b * esum.d * esum'.d
    /\ ~IsUpdate(call') => esum' = esum
    /\ (/\ Kp = 0 /\ Kd = 0 /\ Ki = 1 /\ setpoint = 1
        /\ call' = Call("update", 0, 1)) =>
          /\ nupd = 0 => esum' = [n |-> 1, d |-> 2]
          /\ (nupd = 1 /\ call = Call("update", 0, 1)) =>
                /\ esum = [n |-> 1, d |-> 2]
                /\ esum' = [n |-> 3, d |-> 2]
                /\ actuation_signal' = [n |-> 3, d |-> 2]

C8_TrapezoidalIntegral == [][C8_Step]_vars

\* the second of the two update(0, 1) calls of the example has returned
C8_Witness ==
    /\ nupd = 2
    /\ Kp = 0 /\ Kd = 0 /\ Ki = 1 /\ setpoint = 1
    /\ call = Call("update", 0, 1)
    /\ laste = 1
    /\ esum = [n |-> 3, d |-> 2]
    /\ actuation_signal = [n |-> 3, d |-> 2]

\* C9: the derivative of an update(read, t) that returns is (error - laste)
\* / t, where laste is the error of the latest update that returned (0 if
\* none), and afterwards laste is the error of this call.  With only
\* Kd = 1 and setpoint 0, update(1, 1) then update(3, 1) gives a derivative
\* of -2 on the second call, and an actuation signal of -2.
C9_Step ==
    /\ nupd = 0 => laste = 0
    /\ Returns(call') =>
          /\ dele'.n * call'.b = ((setpoint - call'.a) - laste) * dele'.d
          /\ laste' = setpoint - call'.a
    /\ ~Returns(call') => laste' = laste
    /\ (/\ Kp = 0 /\ Ki = 0 /\ Kd = 1 /\ setpoint = 0
        /\ nupd = 1
        /\ call = Call("update", 1, 1)
        /\ call' = Call("update", 3, 1)) =>
          /\ laste = -1
          /\ dele' = R(-2)
          /\ actuation_signal' = R(-2)

C9_Derivative == [][C9_Step]_vars

\* update(3, 1) of the example has returned
C9_Witness ==
    /\ nupd = 2
    /\ Kp = 0 /\ Ki = 0 /\ Kd = 1 /\ setpoint = 0
    /\ call = Call("update", 3, 1)
    /\ laste = -3
    /\ dele = R(-2)
    /\ actuation_signal = R(-2)

\* C10 as stated: an emission writes one line "<time>,<position>" per
\* buffered sample, in insertion order, and then the single line "#STOP#";
\* nothing is printed at any other time.
C10_OnlyEmissionWrites ==
    printed # <<>> =>
        /\ IsUpdate(call)
        /\ Len(printed) = Len(times) + 1
        /\ printed[Len(printed)] = "#STOP#"
        /\ \A i \in 1..Len(times) :
              printed[i] = ToString(times[i]) \o "," \o ToString(positions[i])

\* C10 amended: an emission, which is what an update does that finds the
\* recorder armed and the buffer full, writes one line "<time>,<position>"
\* per buffered sample, in insertion order, the i-th time with the i-th
\* position (the encoder reading of the update that recorded that time),
\* and then the single line "#STOP#".  A direct call of print_values()
\* writes the sample lines of the buffer as it is, with no "#STOP#" line.
\* No other call prints.
C10_Lines ==
    /\ (printed # <<>> /\ IsUpdate(call)) =>
          /\ Len(times) = Capacity
          /\ Len(positions) = Len(times)
          /\ Len(printed) = Len(times) + 1
          /\ printed[Len(printed)] = "#STOP#"
          /\ \A i \in 1..Len(times) :
                /\ printed[i] =
                      ToString(times[i]) \o "," \o ToString(positions[i])
                /\ printed[i] # "#STOP#"
                /\ positions[i] = setpoint + Ripple(Origin + times[i])
                /\ i > 1 => times[i - 1] < times[i]
    /\ call.name = "print_values" =>
          /\ Len(printed) = Len(times)
          /\ \A i \in 1..Len(times) :
                /\ printed[i] =
                      ToString(times[i]) \o "," \o ToString(positions[i])
                /\ printed[i] # "#STOP#"

C10_Step ==
    (printed' # <<>>) <=>
        \/ Returns(call') /\ recording /\ Len(times) = Capacity
        \/ call'.name = "print_values" /\ times # <<>>

C10_EmissionFormat == []C10_Lines /\ [][C10_Step]_vars

\* an emission has just happened
C10_Witness ==
    /\ IsUpdate(call)
    /\ Len(printed) = Capacity + 1
    /\ printed[1] = ToString(times[1]) \o "," \o ToString(positions[1])
    /\ positions[1] # positions[2]
    /\ ~recording

IsRearm(c) == c.name = "record" \/ c.name = "set_setpoint"

\* C11: recording turns from false to true only in record() or
\* set_setpoint(); it turns from true to false only in an update that
\* finds the buffer at capacity, which in a session is the update after the
\* one that stored the 100th sample and no other, so at most once per
\* session and once in every session that gets that far.
C11_Step ==
    /\ (~recording /\ recording') => IsRearm(call')
    /\ (recording /\ ~recording') =>
          /\ Returns(call')
          /\ Len(times) = Capacity
          /\ nsince = Capacity /\ nsince' = Capacity + 1
    /\ (IsUpdate(call') \/ call'.name = "set_control_gain") =>
          (recording' => recording)

C11_Sessions == rearmed => (recording <=> nsince <= Capacity)

C11_ArmedTransitions == []C11_Sessions /\ [][C11_Step]_vars

\* the update that found the buffer full has disarmed the recorder
C11_Witness ==
    /\ Returns(call)
    /\ rearmed
    /\ nsince = Capacity + 1
    /\ ~recording

\* C12: an update that returns while the recorder is armed either appends
\* one sample (clock reading minus time origin, the measurement passed),
\* prints nothing and stays armed, when the buffer holds fewer than 100
\* entries; or appends nothing, prints the whole buffer and disarms, when
\* it holds 100.
C12_Step ==
    (Returns(call') /\ recording) =>
        IF Len(times) < 100
        THEN /\ times' = Append(times, clock' - Origin)
             /\ positions' = Append(positions, call'.a)
             /\ printed' = <<>>
             /\ recording'
        ELSE /\ times' = times
             /\ positions' = positions
             /\ Len(printed') = Len(times) + 1
             /\ \A i \in 1..Len(times) :
                   printed'[i] =
                       ToString(times[i]) \o "," \o ToString(positions[i])
             /\ ~recording'

C12_ArmedUpdate == [][C12_Step]_vars

\* an armed update has appended the 100th sample
C12_Witness ==
    /\ Returns(call)
    /\ recording
    /\ Len(times) = 100
    /\ times[100] = clock - Origin
    /\ positions[100] = call.a
    /\ printed = <<>>

\* C13: an update made while recording is false appends nothing and prints
\* nothing; a constructed controller is disarmed with empty buffers and
\* stays so, printing nothing, until record() or set_setpoint() is called.
C13_Step ==
    (IsUpdate(call') /\ ~recording) =>
        /\ times' = times
        /\ positions' = positions
        /\ printed' = <<>>
        /\ ~recording'

C13_Fresh ==
    ~rearmed =>
        /\ ~recording
        /\ times = <<>>
        /\ positions = <<>>
        /\ printed = <<>>

C13_DisarmedUpdate == []C13_Fresh /\ [][C13_Step]_vars

\* a controller that has been updated past the capacity without ever being
\* armed
C13_Witness ==
    /\ ~rearmed
    /\ IsUpdate(call)
    /\ nupd > Capacity
    /\ times = <<>>

\* C14: between two re-arms, and after the last one, at most one emission
\* (the lines an update prints, which end with "#STOP#") happens, and an
\* emission carries exactly 100 samples; record() and set_setpoint() empty
\* the buffers and print nothing, whatever the session they end had
\* recorded.
C14_Sessions ==
    /\ nemit <= 1
    /\ (printed # <<>> /\ IsUpdate(call)) =>
          (Len(printed) = 100 + 1 /\ Len(times) = 100)
    /\ (printed # <<>> /\ printed[Len(printed)] = "#STOP#") =>
          (IsUpdate(call) /\ nemit = 1)

C14_Step ==
    IsRearm(call') =>
        /\ printed' = <<>>
        /\ times' = <<>>
        /\ positions' = <<>>
        /\ nemit' = 0

C14_OneEmissionPerSession == []C14_Sessions /\ [][C14_Step]_vars

\* a session has emitted once and has been updated further
C14_Witness ==
    /\ rearmed
    /\ nemit = 1
    /\ nsince > Capacity + 1
    /\ printed = <<>>

\* an update has just emitted: the 100 sample lines and then "#STOP#"
C15_Emission ==
    /\ Returns(call)
    /\ Len(printed) = Capacity + 1
    /\ printed[Capacity + 1] = "#STOP#"
    /\ ~recording

\* C15: when the recorder is armed and the caller keeps calling update
\* without a further record() or set_setpoint(), an emission eventually
\* happens, and the recorder is eventually disarmed, its session emitted,
\* and stays so.
C15_EventuallyDisarmed ==
    /\ recording ~> C15_Emission
    /\ recording ~> [](~recording /\ nemit = 1)

\* a session has run to its emission
C15_Witness ==
    /\ rearmed
    /\ nemit = 1
    /\ ~recording
    /\ clock > RecEdge + Capacity

\* C16: update(read, 0) raises ZeroDivisionError where it divides by tdif:
\* it returns no value, appends no sample, prints nothing, and leaves
\* recording, laste and the value of esum as they were.
C16_Step ==
    (IsUpdate(call') /\ call'.b = 0) =>
        /\ result' = ZeroDivisionError
        /\ result'.status # "value"
        /\ times' = times
        /\ positions' = positions
        /\ printed' = <<>>
        /\ recording' = recording
        /\ laste' = laste
        /\ esum' = esum

C16_ZeroElapsedTime == [][C16_Step]_vars

\* update(read, 0) has failed on an armed controller with an error history
C16_Witness ==
    /\ IsUpdate(call) /\ call.b = 0
    /\ result = ZeroDivisionError
    /\ nupd = 2
    /\ recording /\ Len(times) = 1
    /\ laste # 0
    /\ laste # setpoint - call.a
    /\ esum # R(0)

\* C17 as stated: with low > high, every value update returns is low.
C17_AlwaysLow ==
    (IsUpdate(call) /\ call.b > 0 /\ satLim[1] > satLim[2]) =>
        result = Returned(R(satLim[1]))

\* C17 amended: with low > high, sat returns low for a value below low and
\* high for every other value, so update returns one of the two limits and
\* never the actuation signal itself.
C17_InvertedBounds ==
    (IsUpdate(call) /\ call.b > 0 /\ satLim[1] > satLim[2]) =>
        /\ result.status = "value"
        /\ result.value =
              IF actuation_signal.n < satLim[1] * actuation_signal.d
              THEN R(satLim[1])
              ELSE R(satLim[2])
        /\ result.value # actuation_signal

\* with limits <<1, -1>> an update has returned the second limit
C17_Witness ==
    /\ IsUpdate(call) /\ call.b > 0
    /\ satLim = <<1, -1>>
    /\ actuation_signal.n >= actuation_signal.d
    /\ result = Returned(R(-1))

\* C18: the time origin is the counter reading of construction until
\* set_setpoint() replaces it by the reading of its call; no other call
\* changes it.  The i-th time of the buffer is the clock reading of the
\* i-th update of the session minus the time origin, so the times are
\* non-negative and non-decreasing, also in a session that record()
\* started.
C18_Step ==
    /\ call'.name = "set_setpoint" => to' = Time'
    /\ call'.name # "set_setpoint" => to' = to

C18_Times ==
    /\ call.name = "__init__" => to = Time
    /\ \E t \in 0..clock : TimeAt(t) = to
    /\ \A i \in 1..Len(times) :
          /\ times[i] = (clock - (nsince - i)) - Origin
          /\ times[i] >= 0
          /\ i > 1 => times[i - 1] <= times[i]

C18_TimeOrigin == []C18_Times /\ [][C18_Step]_vars

\* a session that record() started one millisecond after construction has
\* filled the buffer with times counted from the construction, and the
\* counter has wrapped since
C18_Witness ==
    /\ rearmed
    /\ to = boot /\ Time < to
    /\ Len(times) = Capacity
    /\ times[1] = 2
    /\ times[Capacity] = Capacity + 1

\* the error of the update at clock reading t in SpecRec, and twice the
\* sum of the trapezoids up to t
ErrorAt(t) == IF t = 0 THEN 0 ELSE -Ripple(t)

TwiceArea[t \in Nat] ==
    IF t = 0 THEN 0 ELSE TwiceArea[t - 1] + ErrorAt(t - 1) + ErrorAt(t)

TwiceAreaAt(t) == TwiceArea[t]

\* C19: what update returns and what it leaves in esum and laste is a
\* function of Kp, Ki, Kd, the setpoint, the limits, esum, laste and the
\* two arguments alone, whatever recording, the buffers, the time origin
\* and the clock are; record() changes none of these.  So the runs of
\* SpecRec, which differ in when and how the recorder was armed, agree at
\* every clock reading on esum, laste and the value returned.
C19_Step ==
    /\ Returns(call') =>
          LET e  == setpoint - call'.a
              t  == call'.b
              es == Add(esum, Div(R((laste + e) * t), R(2)))
              de == Div(R(e - laste), R(t))
              a  == Add(Add(R(Kp * e), Mul(R(Ki), es)), Mul(R(Kd), de))
              v  == IF a.n < satLim[1] * a.d THEN R(satLim[1])
                    ELSE IF a.n > satLim[2] * a.d THEN R(satLim[2])
                    ELSE a
          IN  /\ esum' = es
              /\ laste' = e
              /\ result' = Returned(v)
    /\ call'.name = "record" =>
          UNCHANGED <<Kp, Ki, Kd, setpoint, satLim, esum, laste>>

C19_SameOutputs ==
    /\ laste = ErrorAt(clock)
    /\ 2 * esum.n = TwiceAreaAt(clock) * esum.d
    /\ Returns(call) =>
          LET twice == 2 * Kp * ErrorAt(clock) + TwiceAreaAt(clock)
                       + 2 * (ErrorAt(clock) - ErrorAt(clock - 1))
              v == IF twice < 2 * satLim[1] THEN R(satLim[1])
                   ELSE IF twice > 2 * satLim[2] THEN R(satLim[2])
                   ELSE Div(R(twice), R(2))
          IN  result = Returned(v)

C19_ControlIgnoresRecorder == []C19_SameOutputs /\ [][C19_Step]_vars

\* the update that emits returns a clamped value while the integral is
\* past the lower limit
C19_Witness ==
    /\ Returns(call)
    /\ printed # <<>>
    /\ result = Returned(R(-100))
    /\ esum.n < -100 * esum.d

\* C20: the two lists always have the same length, and the i-th position
\* is the encoder reading of the update that stored the i-th time; after
\* an emission the lists keep their 100 entries, with recording false,
\* until record() or set_setpoint() is called.
C20_Lists ==
    /\ Len(times) = Len(positions)
    /\ \A i \in 1..Len(times) :
          positions[i] = setpoint + Ripple(Origin + times[i])
    /\ nemit = 1 =>
          /\ Len(times) = 100
          /\ ~recording

C20_Step ==
    (nemit = 1 /\ ~IsRearm(call')) =>
        /\ times' = times
        /\ positions' = positions
        /\ nemit' = 1

C20_ParallelBuffers == []C20_Lists /\ [][C20_Step]_vars

\* the emitted buffer is still there after a later set_control_gain
C20_Witness ==
    /\ call.name = "set_control_gain"
    /\ nemit = 1
    /\ Len(times) = 100 /\ Len(positions) = 100
    /\ ~recording

====
